---- MODULE Spec2Model ----
(***************************************************************************)
(* Payroll computation of app.py: compute_payroll_for_employee and         *)
(* compute_income_tax_monthly_from_table.                                  *)
(*                                                                         *)
(* Units.  The program computes with Python floats; the model computes the *)
(* same quantities exactly, as integers:                                   *)
(*   - a time of day is a number of minutes after midnight (0..1439); a    *)
(*     datetime of the day being processed is a number of minutes after    *)
(*     that day's midnight (so the next day starts at 1440);               *)
(*   - every "hours" quantity (chunk_hours, regular_hours, ot_hours,       *)
(*     nd_hours, work_hours_effective, restday_hours_counted) is held in   *)
(*     minutes, i.e. hours * 60;                                           *)
(*   - multipliers are held in hundredths (1.25 is 125, 1.10 is 110);      *)
(*   - money is held in centavos (pesos * 100).  The salaries of the model *)
(*     are chosen so that every amount the program computes is a whole     *)
(*     number of centavos and every division below is exact.               *)
(*   - a date is a day number; day 0 is a Monday.                          *)
(***************************************************************************)
EXTENDS Integers, Sequences, FiniteSets, TLC

\* ------------------------------------------------------------------ bounds
\* Longest period in days (period_end - period_start + 1 <= MaxDays).
MaxDays == 2
\* The tax function is applied to incomes within TaxSteps steps of 0.20 on
\* either side of every bracket boundary.
TaxSteps == 5

\* ------------------------------------------------------- values and inputs
\* Python's None for a nullable time column (TimeEntry.time_in / time_out).
None == -1
\* get_holiday_type_for_date's None: the date has no Holiday row.
NoHoliday == "None"

Min(a, b) == IF a < b THEN a ELSE b
Max(a, b) == IF a > b THEN a ELSE b

\* cur_date.strftime('%A')
WeekdayNames ==
    <<"Monday", "Tuesday", "Wednesday", "Thursday", "Friday", "Saturday", "Sunday">>
strftime_A(d) == WeekdayNames[(d % 7) + 1]

\* Monthly salaries in centavos: 0 and 2,504,000.00 (hourly rate 12,000.00).
Salaries == {0, 250400000}
RestDays == {"Saturday", "Sunday"}
\* The period starts on a Saturday.
PeriodStarts == {5}

\* time(h, m)
time(h, m) == h * 60 + m

\* The (time_in, time_out) pairs a TimeEntry row of the model may hold.
Shifts ==
    { [time_in |-> time(9, 0),  time_out |-> None],
      [time_in |-> None,        time_out |-> time(18, 0)],
      [time_in |-> time(9, 0),  time_out |-> time(18, 0)],
      [time_in |-> time(9, 0),  time_out |-> time(20, 30)],
      [time_in |-> time(8, 0),  time_out |-> time(19, 0)],
      [time_in |-> time(14, 0), time_out |-> time(2, 0)],
      [time_in |-> time(9, 30), time_out |-> time(17, 10)],
      [time_in |-> time(9, 0),  time_out |-> time(9, 0)] }

\* TimeEntry rows of the employee with period_start <= date <= period_end, at
\* most one per date (the routes update the row of a date that has one).
EntryTables(ps, pe) ==
    UNION { { { [date |-> d, time_in |-> f[d].time_in, time_out |-> f[d].time_out] : d \in D }
              : f \in [D -> Shifts] }
            : D \in SUBSET (ps .. pe) }

\* Holiday tables: no row, or one row (date is unique) in the window.
HolidayTables(ps) ==
    { {} } \cup { { [date |-> d, type |-> t] } :
                    d \in ps .. (ps + MaxDays - 1), t \in {"REGULAR", "SPECIAL"} }

\* ------------------------------------------------------------------- rates
basic_and_rates_from_monthly(monthly_salary) ==
    [ basic_pay   |-> monthly_salary \div 2,
      daily_rate  |-> (monthly_salary \div 313) * 12,
      hourly_rate |-> ((monthly_salary \div 313) * 12) \div 8 ]

\* Base multipliers in hundredths.
BASE ==
    [ REGULAR |-> 100, REGULAR_OT |-> 125, RESTDAY |-> 130, RESTDAY_OT |-> 169,
      SPECIAL |-> 130, SPECIAL_OT |-> 169, SPECIAL_ON_RD |-> 150,
      SPECIAL_ON_RD_OT |-> 169, REGULAR_HOL |-> 200, REGULAR_HOL_OT |-> 260,
      REGULAR_HOL_ON_RD |-> 260 ]
\* Night differential 110%, in hundredths.
ND_FACTOR == 110

\* The base multipliers whose hours are summarised as overtime.
OT_BASES ==
    { BASE.REGULAR_OT, BASE.RESTDAY_OT, BASE.SPECIAL_OT, BASE.SPECIAL_ON_RD_OT,
      BASE.REGULAR_HOL_OT }

\* Faulty variant of is_nd_time (`and` for `or`): no time is in the window.
is_nd_time_and(dt_time) == (dt_time >= time(22, 0)) /\ (dt_time < time(6, 0))
is_nd_time(dt_time) == (dt_time >= time(22, 0)) \/ (dt_time < time(6, 0))

scheduled_in == time(9, 0)
scheduled_out == time(18, 0)
scheduled_ot_start == (scheduled_out + 60) % 1440
\* step = timedelta(minutes=15)
step == 15
\* The rest-day boundary of 8.0 hours, in minutes.
RESTDAY_REGULAR_HOURS == 480

\* hourly_rate * mult * hours, with mult in hundredths^2 (base * ND factor)
\* and hours in minutes: hourly_rate * (mult / 10000) * (minutes / 60).
Pay(hourly_rate, mult, minutes) == (hourly_rate \div 600000) * mult * minutes


\* p percent of x (p * x / 100), exact whenever it is a whole number.
PercentOf(p, x) == (x \div 100) * p + ((x % 100) * p) \div 100

\* -------------------------------------------------------------- income tax
\* Bracket boundaries 20,833 / 33,333 / 66,667 / 166,667 / 666,667 in centavos.
TaxBoundaries == {2083300, 3333300, 6666700, 16666700, 66666700}

\* Faulty variant of the tax table: the 20% bracket takes the excess over its
\* upper boundary 66,667 instead of 33,333.
compute_income_tax_excess_over_upper(taxable) ==
    IF taxable <= 2083300 THEN 0
    ELSE IF taxable <= 3333300 THEN 0
    ELSE IF taxable <= 6666700 THEN PercentOf(15, Max(0, taxable - 2083300))
    ELSE IF taxable <= 16666700 THEN 187500 + PercentOf(20, taxable - 6666700)
    ELSE IF taxable <= 66666700 THEN 3354180 + PercentOf(30, taxable - 16666700)
    ELSE 18354180 + PercentOf(35, taxable - 66666700)

compute_income_tax_monthly_from_table(taxable) ==
    IF taxable <= 2083300 THEN 0
    ELSE IF taxable <= 3333300 THEN 0
    ELSE IF taxable <= 6666700 THEN PercentOf(15, Max(0, taxable - 2083300))
    ELSE IF taxable <= 16666700 THEN 187500 + PercentOf(20, taxable - 3333300)
    ELSE IF taxable <= 66666700 THEN 3354180 + PercentOf(30, taxable - 16666700)
    ELSE 18354180 + PercentOf(35, taxable - 66666700)

\* Taxable incomes the tax function is applied to: every boundary and the
\* incomes within TaxSteps steps of 0.20 of it, a negative income, zero and
\* an income far in the top bracket.
TaxPoints ==
    {-5000000, 0, 100000000}
        \cup { b + 20 * k : b \in TaxBoundaries, k \in (0 - TaxSteps) .. TaxSteps }

\* ------------------------------------------------------------------- state
VARIABLES
    emp,                    \* the Employee row: id, monthly_salary, rest_day
    period_start,           \* first date of the period
    period_end,             \* last date of the period
    entries,                \* the TimeEntry rows loaded for the period
    holidays,               \* the Holiday table
    pc,                     \* position in compute_payroll_for_employee
    i,                      \* index of the day loop
    totals,                 \* the accumulators
    is_rest,                \* locals of the day being processed
    holiday_type,
    ent,                    \* the day's TimeEntry row: {} (None) or {row}
    tin,
    tout,
    work_hours_effective,
    restday_hours_counted,
    cursor,                 \* cursor of the chunk loop
    result,                 \* the returned summary: {} before the return
    day_start_totals,       \* history: totals when the current day began
    tax_in,                 \* arguments of two calls of the tax function
    tax_out                 \* their results, <<>> before the calls

vars ==
    << emp, period_start, period_end, entries, holidays, pc, i, totals, is_rest,
       holiday_type, ent, tin, tout, work_hours_effective, restday_hours_counted,
       cursor, result, day_start_totals, tax_in, tax_out >>

inputs == << emp, period_start, period_end, entries, holidays >>
day_locals == << is_rest, holiday_type, ent, tin, tout, work_hours_effective >>
tax_vars == << tax_in, tax_out >>

ZeroTotals ==
    [ chunk_pay |-> 0, regular_hours |-> 0, ot_hours |-> 0, nd_hours |-> 0,
      tardiness_minutes |-> 0, undertime_minutes |-> 0, absences |-> 0,
      days_worked |-> 0 ]

\* The state on entry to compute_payroll_for_employee(e, ps, pe).
Entry(e, ps, pe, en, h) ==
    /\ emp = e
    /\ period_start = ps
    /\ period_end = pe
    /\ entries = en
    /\ holidays = h
    /\ pc = "day"
    /\ i = 0
    /\ totals = ZeroTotals
    /\ is_rest = FALSE
    /\ holiday_type = NoHoliday
    /\ ent = {}
    /\ tin = 0
    /\ tout = 0
    /\ work_hours_effective = 0
    /\ restday_hours_counted = 0
    /\ cursor = 0
    /\ result = {}
    /\ day_start_totals = ZeroTotals

Init ==
    /\ \E e \in [id : {1}, monthly_salary : Salaries, rest_day : RestDays],
          ps \in PeriodStarts :
         \E pe \in (ps - 2) .. (ps + MaxDays - 1) :
            \E en \in EntryTables(ps, pe), h \in HolidayTables(ps) :
               Entry(e, ps, pe, en, h)
    /\ tax_in = <<0, 0>>
    /\ tax_out = <<>>

\* ------------------------------------------------------------ the day loop
get_holiday_type_for_date(d) ==
    IF \E h \in holidays : h.date = d
    THEN (CHOOSE h \in holidays : h.date = d).type
    ELSE NoHoliday

\* next((e for e in entries if e.date == cur_date), None)
FindEntry(d) == { e \in entries : e.date = d }

day_count == (period_end - period_start) + 1
cur_date == period_start + i
rates == basic_and_rates_from_monthly(emp.monthly_salary)

IsComplete(rows) == \E e \in rows : e.time_in # None /\ e.time_out # None

\* if not is_rest and holiday_type is None: totals['absences'] += 1
\* Faulty variant: the rest-day and holiday test is left out.
CountsAsAbsence_any_day(rest, hol) == TRUE
CountsAsAbsence(rest, hol) == ~rest /\ hol = NoHoliday

\* A day of the loop with no complete record: an absence on an ordinary day.
DayAbsent ==
    /\ pc = "day"
    /\ i < day_count
    /\ LET rest == (strftime_A(cur_date) = emp.rest_day)
           hol == get_holiday_type_for_date(cur_date)
           row == FindEntry(cur_date)
       IN  /\ ~IsComplete(row)
           /\ is_rest' = rest
           /\ holiday_type' = hol
           /\ ent' = row
           /\ totals' = IF CountsAsAbsence(rest, hol)
                        THEN [totals EXCEPT !.absences = @ + 1]
                        ELSE totals
    /\ i' = i + 1
    /\ day_start_totals' = totals
    /\ UNCHANGED << inputs, pc, tin, tout, work_hours_effective,
                    restday_hours_counted, cursor, result, tax_vars >>

\* Faulty variant: the rest-day and holiday test is left out.
IsTardy_any_day(time_in, rest, hol) == time_in > scheduled_in
IsTardy(time_in, rest, hol) == time_in > scheduled_in /\ ~rest /\ hol = NoHoliday
IsUndertime(time_out, rest, hol) == time_out < scheduled_out /\ ~rest /\ hol = NoHoliday

WorkHoursEffective(work_dur_hours) ==
    LET eff == IF work_dur_hours > 300 THEN work_dur_hours - 60 ELSE work_dur_hours
    IN  IF eff < 0 THEN 0 ELSE eff

\* A day with a complete record, up to the start of the chunk loop.
DayWorked ==
    /\ pc = "day"
    /\ i < day_count
    /\ LET rest == (strftime_A(cur_date) = emp.rest_day)
           hol == get_holiday_type_for_date(cur_date)
           row == FindEntry(cur_date)
       IN  /\ IsComplete(row)
           /\ LET e == CHOOSE r \in row : TRUE
                  t_in == e.time_in
                  t_out == IF e.time_out < e.time_in THEN e.time_out + 1440
                           ELSE e.time_out
              IN  /\ is_rest' = rest
                  /\ holiday_type' = hol
                  /\ ent' = row
                  /\ tin' = t_in
                  /\ tout' = t_out
                  /\ work_hours_effective' = WorkHoursEffective(t_out - t_in)
                  /\ totals' =
                        [totals EXCEPT
                           !.days_worked = @ + 1,
                           !.tardiness_minutes =
                               IF IsTardy(e.time_in, rest, hol)
                               THEN @ + (e.time_in - scheduled_in) ELSE @,
                           !.undertime_minutes =
                               IF IsUndertime(e.time_out, rest, hol)
                               THEN @ + (scheduled_out - e.time_out) ELSE @]
                  /\ cursor' = t_in
    /\ restday_hours_counted' = 0
    /\ day_start_totals' = totals
    /\ pc' = "chunk"
    /\ UNCHANGED << inputs, i, result, tax_vars >>


\* ---------------------------------------------------------- the chunk loop
\* chunk_time > scheduled_ot_start
\* Faulty variant: the chunk that starts at 19:00 sharp counts as overtime.
after_ot_start_inclusive(chunk_time) == chunk_time >= scheduled_ot_start
after_ot_start(chunk_time) == chunk_time > scheduled_ot_start

\* ot as set before the base multiplier logic: non-rest, non-holiday days only.
\* Faulty variant: the holiday test is left out.
OrdinaryOt_on_holidays(rest, hol, chunk_time) == ~rest /\ after_ot_start(chunk_time)
OrdinaryOt(rest, hol, chunk_time) ==
    ~rest /\ hol = NoHoliday /\ after_ot_start(chunk_time)

\* The rest-day branch that splits a chunk at the 8-hour boundary.
RestdaySplits(rest, hol, counted, chunk_hours) ==
    /\ hol # "REGULAR"
    /\ hol # "SPECIAL"
    /\ rest
    /\ counted < RESTDAY_REGULAR_HOURS
    /\ chunk_hours > Max(0, RESTDAY_REGULAR_HOURS - counted)

\* base_mult of a chunk that is not split.
\* Faulty variant: a regular holiday on the rest day takes REGULAR_HOL_ON_RD.
BaseMult_regular_hol_on_rd(rest, hol, counted, ot) ==
    IF hol = "REGULAR"
    THEN IF rest THEN BASE.REGULAR_HOL_ON_RD
         ELSE IF ot THEN BASE.REGULAR_HOL_OT ELSE BASE.REGULAR_HOL
    ELSE IF hol = "SPECIAL"
    THEN IF rest
         THEN IF ot THEN BASE.SPECIAL_ON_RD_OT ELSE BASE.SPECIAL_ON_RD
         ELSE IF ot THEN BASE.SPECIAL_OT ELSE BASE.SPECIAL
    ELSE IF rest
    THEN IF counted >= RESTDAY_REGULAR_HOURS THEN BASE.RESTDAY_OT ELSE BASE.RESTDAY
    ELSE IF ot THEN BASE.REGULAR_OT ELSE BASE.REGULAR
BaseMult(rest, hol, counted, ot) ==
    IF hol = "REGULAR"
    THEN IF ot THEN BASE.REGULAR_HOL_OT ELSE BASE.REGULAR_HOL
    ELSE IF hol = "SPECIAL"
    THEN IF rest
         THEN IF ot THEN BASE.SPECIAL_ON_RD_OT ELSE BASE.SPECIAL_ON_RD
         ELSE IF ot THEN BASE.SPECIAL_OT ELSE BASE.SPECIAL
    ELSE IF rest
    THEN IF counted >= RESTDAY_REGULAR_HOURS THEN BASE.RESTDAY_OT ELSE BASE.RESTDAY
    ELSE IF ot THEN BASE.REGULAR_OT ELSE BASE.REGULAR

\* restday_hours_counted after a chunk: it advances on non-holiday rest days.
\* Faulty variant: restday_hours_counted += chunk_hours is left out.
CountedAfter_never_advanced(rest, hol, counted, chunk_hours) == counted
CountedAfter(rest, hol, counted, chunk_hours) ==
    IF hol # "REGULAR" /\ hol # "SPECIAL" /\ rest THEN counted + chunk_hours
    ELSE counted

\* The accumulators after one chunk [cursor, nxt) of the day.
ChunkTotals(tot, hourly_rate, rest, hol, counted, chunk_time, chunk_hours) ==
    LET nd == is_nd_time(chunk_time)
        nd_mult == IF nd THEN ND_FACTOR ELSE 100
        nd_add == IF nd THEN chunk_hours ELSE 0
    IN  IF RestdaySplits(rest, hol, counted, chunk_hours)
        THEN LET portion_before == Max(0, RESTDAY_REGULAR_HOURS - counted)
                 portion_after == chunk_hours - portion_before
                 pay_before == Pay(hourly_rate, BASE.RESTDAY * nd_mult, portion_before)
                 pay_after == Pay(hourly_rate, BASE.RESTDAY_OT * nd_mult, portion_after)
             IN  [tot EXCEPT !.chunk_pay = @ + pay_before + pay_after,
                             !.regular_hours = @ + portion_before,
                             !.ot_hours = @ + portion_after,
                             !.nd_hours = @ + nd_add]
        ELSE LET ot == OrdinaryOt(rest, hol, chunk_time)
                 base_mult == BaseMult(rest, hol, counted, ot)
                 final_mult == base_mult * nd_mult
                 chunk_pay == Pay(hourly_rate, final_mult, chunk_hours)
             IN  [tot EXCEPT !.chunk_pay = @ + chunk_pay,
                             !.ot_hours =
                                 IF base_mult \in OT_BASES THEN @ + chunk_hours ELSE @,
                             !.regular_hours =
                                 IF base_mult \in OT_BASES THEN @ ELSE @ + chunk_hours,
                             !.nd_hours = @ + nd_add]

\* nxt = min(tout, cursor + step)
\* Faulty variant: the step is left out, so the cursor never advances.
NextCursor_no_step(cur, t_out) == Min(t_out, cur)
NextCursor(cur, t_out) == Min(t_out, cur + step)

\* One iteration of `while cursor < tout`.
Chunk ==
    /\ pc = "chunk"
    /\ cursor < tout
    /\ LET nxt == NextCursor(cursor, tout)
           chunk_hours == nxt - cursor
           chunk_time == cursor % 1440
       IN  /\ totals' = ChunkTotals(totals, rates.hourly_rate, is_rest, holiday_type,
                                    restday_hours_counted, chunk_time, chunk_hours)
           /\ restday_hours_counted' =
                 CountedAfter(is_rest, holiday_type, restday_hours_counted, chunk_hours)
           /\ cursor' = nxt
    /\ UNCHANGED << inputs, pc, i, day_locals, result, day_start_totals, tax_vars >>

\* The chunk loop ends (cursor >= tout): the day loop goes to the next day.
EndDay ==
    /\ pc = "chunk"
    /\ ~(cursor < tout)
    /\ i' = i + 1
    /\ pc' = "day"
    /\ UNCHANGED << inputs, totals, day_locals, restday_hours_counted, cursor,
                    result, day_start_totals, tax_vars >>

\* -------------------------------------------------- deductions and summary
\* round(hours, 2) of a quantity held in minutes, in hundredths of an hour.
RoundHours(minutes) == (minutes * 10 + 3) \div 6

\* net_pay = gross_pay - total_deductions; the faulty variant clamps it at 0.
NetPayClamped(gross_pay, total_deductions) == Max(0, gross_pay - total_deductions)
NetPay(gross_pay, total_deductions) == gross_pay - total_deductions

\* The summary computed from the accumulators after the day loop.  Money is a
\* whole number of centavos, so round(x, 2) leaves it as it is.
Summary(e, ps, pe, tot) ==
    LET r == basic_and_rates_from_monthly(e.monthly_salary)
        gross_pay == tot.chunk_pay
        sss == IF e.monthly_salary # 0 THEN PercentOf(5, e.monthly_salary) ELSE 0
        philhealth == IF e.monthly_salary # 0 THEN e.monthly_salary \div 40 ELSE 0
        pagibig == 20000
        late_ded == tot.tardiness_minutes * (r.hourly_rate \div 60)
        undertime_ded == tot.undertime_minutes * (r.hourly_rate \div 60)
        lwop_ded == tot.absences * r.daily_rate
        taxable_income == gross_pay - (sss + philhealth + pagibig)
        income_tax == compute_income_tax_monthly_from_table(taxable_income)
        total_deductions ==
            sss + philhealth + pagibig + late_ded + undertime_ded + lwop_ded + income_tax
    IN  [ employee_id |-> e.id,
          period_start |-> ps,
          period_end |-> pe,
          monthly_salary |-> e.monthly_salary,
          basic_pay |-> r.basic_pay,
          daily_rate |-> r.daily_rate,
          hourly_rate |-> r.hourly_rate,
          regular_hours |-> RoundHours(tot.regular_hours),
          ot_hours |-> RoundHours(tot.ot_hours),
          nd_hours |-> RoundHours(tot.nd_hours),
          days_worked |-> tot.days_worked,
          tardiness_minutes |-> tot.tardiness_minutes,
          undertime_minutes |-> tot.undertime_minutes,
          absences |-> tot.absences,
          gross_pay |-> gross_pay,
          sss |-> sss,
          philhealth |-> philhealth,
          pagibig |-> pagibig,
          late_deduction |-> late_ded,
          undertime_deduction |-> undertime_ded,
          lwop_deduction |-> lwop_ded,
          income_tax |-> income_tax,
          total_deductions |-> total_deductions,
          net_pay |-> NetPay(gross_pay, total_deductions) ]

\* The day loop is over: compute the deductions and return the summary.
Finish ==
    /\ pc = "day"
    /\ ~(i < day_count)
    /\ result' = { Summary(emp, period_start, period_end, totals) }
    /\ pc' = "done"
    /\ UNCHANGED << inputs, i, totals, day_locals, restday_hours_counted, cursor,
                    day_start_totals, tax_vars >>

Next == DayAbsent \/ DayWorked \/ Chunk \/ EndDay \/ Finish

Spec == Init /\ [][Next]_vars

\* ------------------------------------------ the tax function, on its own
TaxInit ==
    /\ Entry([id |-> 1, monthly_salary |-> 0, rest_day |-> "Sunday"], 5, 4, {}, {})
    /\ tax_in \in TaxPoints \X TaxPoints
    /\ tax_out = <<>>

TaxCall ==
    /\ tax_out = <<>>
    /\ tax_out' = << compute_income_tax_monthly_from_table(tax_in[1]),
                     compute_income_tax_monthly_from_table(tax_in[2]) >>
    /\ UNCHANGED << inputs, pc, i, totals, day_locals, restday_hours_counted, cursor,
                    result, day_start_totals, tax_in >>

TaxNext == TaxCall

TaxSpec == TaxInit /\ [][TaxNext]_vars


\* ================================================================== claims
\* What the claims speak of, read from the inputs of the call.
Ordinary(d) == strftime_A(d) # emp.rest_day /\ \A h \in holidays : h.date # d
HasCompleteRecord(d) ==
    \E e \in entries : e.date = d /\ e.time_in # None /\ e.time_out # None
RecordOf(d) == CHOOSE e \in entries : e.date = d
\* Raw duration of the record of date d, in minutes.
RawDuration(d) ==
    LET e == RecordOf(d)
    IN  IF e.time_out < e.time_in THEN e.time_out + 1440 - e.time_in
        ELSE e.time_out - e.time_in
\* The chunk loop of the current day has ended.
DayDone == pc = "chunk" /\ ~(cursor < tout)
\* Hours credited to the current day so far.
DayRegular == totals.regular_hours - day_start_totals.regular_hours
DayOt == totals.ot_hours - day_start_totals.ot_hours

\* C1: for a day with a complete record, the slice durations credited for the
\* day (regular_hours + ot_hours) sum to the post-break duration: the raw
\* duration, minus 1 hour when it exceeds 5 hours, at least 0; an ordinary
\* day worked 09:00-18:00 credits 8 regular hours.
C1_SliceCoverage ==
    DayDone =>
        LET raw == RawDuration(cur_date)
            post == Max(0, IF raw > 300 THEN raw - 60 ELSE raw)
            e == RecordOf(cur_date)
        IN  /\ DayRegular + DayOt = post
            /\ (Ordinary(cur_date) /\ e.time_in = time(9, 0) /\ e.time_out = time(18, 0))
                  => DayRegular = 480

\* C2: on an ordinary day whose clock-out is later than 19:00 on the same
\* date, the hours credited as overtime are exactly the worked time after
\* 19:00; clock-in 09:00, clock-out 20:30 credits 1.5 overtime hours.
C2_OvertimeAfter19 ==
    (/\ DayDone
     /\ Ordinary(cur_date)
     /\ RecordOf(cur_date).time_out > time(19, 0)
     /\ RecordOf(cur_date).time_in <= RecordOf(cur_date).time_out)
        => DayOt = RecordOf(cur_date).time_out
                      - Max(RecordOf(cur_date).time_in, time(19, 0))


\* The dates whose iteration of the day loop has begun.
DatesBegun ==
    IF pc = "chunk" THEN period_start .. cur_date ELSE period_start .. (cur_date - 1)
\* The ordinary dates among D that have no complete record.
AbsentDates(D) == { d \in D : Ordinary(d) /\ ~HasCompleteRecord(d) }

\* C3: the absence count is the number of dates of the period that are
\* ordinary and have no complete record; such a day adds 1 to absences and
\* nothing to the hours, the pay or days_worked, and a rest day or holiday
\* without a complete record adds nothing at all.
C3_Absences ==
    [][ /\ totals'.absences = Cardinality(AbsentDates(DatesBegun'))
        /\ pc' = "done" =>
              \A r \in result' :
                 r.absences = Cardinality(AbsentDates(period_start .. period_end))
        /\ (pc = "day" /\ i < day_count /\ ~HasCompleteRecord(cur_date)) =>
              /\ Ordinary(cur_date) => totals' = [totals EXCEPT !.absences = @ + 1]
              /\ ~Ordinary(cur_date) => totals' = totals ]_vars

\* C3 witness: a period with an absence on an ordinary day and a rest day or
\* holiday without a complete record, after the summary is returned.
C3_Witness ==
    /\ pc = "done"
    /\ totals.absences = 1
    /\ \E d \in period_start .. period_end : ~Ordinary(d) /\ ~HasCompleteRecord(d)
    /\ \E d \in period_start .. period_end : Ordinary(d) /\ ~HasCompleteRecord(d)

\* C4: the tax of a taxable income of exactly 20,833 is 0, and the tax of
\* 20,834 is 15% of 1 (0.15).
C4_TaxAtFirstBoundary ==
    tax_out # <<>> =>
        /\ tax_in[1] = 2083300 => tax_out[1] = 0
        /\ tax_in[1] = 2083400 => tax_out[1] = 15

\* C5: the income tax is monotonic: t1 < t2 implies tax(t1) <= tax(t2).
C5_TaxMonotonic ==
    (tax_out # <<>> /\ tax_in[1] < tax_in[2]) => tax_out[1] <= tax_out[2]

\* C5 witness: two incomes on either side of the boundary 33,333, the tax of
\* the second being larger.
C5_Witness ==
    /\ tax_out # <<>>
    /\ tax_in[1] = 3333300
    /\ tax_in[2] = 3333320
    /\ tax_out[1] < tax_out[2]

\* C6: a call with period_end earlier than period_start fails with an error
\* and returns no pay summary.
C6_InvalidPeriodRejected == period_end < period_start => result = {}


\* A rest day that is not a holiday.
RestDayOnly(d) == strftime_A(d) = emp.rest_day /\ \A h \in holidays : h.date # d
\* The chunk the loop is about to process: its length and its start time.
NextChunkHours == Min(tout, cursor + 15) - cursor
NextChunkTime == cursor % 1440
InNdWindow(t) == t >= 22 * 60 \/ t < 6 * 60

\* C7: on a rest day that is not a holiday, of the W hours of slices of the
\* day min(8, W) are credited to regular_hours and paid at 1.30 and the rest
\* to ot_hours and paid at 1.69, the switch being exactly at the 8-hour mark;
\* each portion is multiplied by 1.10 when the slice is in the night window.
C7_RestDaySplit ==
    [][ (pc = "chunk" /\ cursor < tout /\ RestDayOnly(cur_date)) =>
          LET W == cursor - tin
              before == Min(NextChunkHours, Max(0, 480 - W))
              after == NextChunkHours - before
              ndm == IF InNdWindow(NextChunkTime) THEN 110 ELSE 100
          IN  /\ totals'.regular_hours = totals.regular_hours + before
              /\ totals'.ot_hours = totals.ot_hours + after
              /\ totals'.chunk_pay =
                    totals.chunk_pay + Pay(rates.hourly_rate, 130 * ndm, before)
                                     + Pay(rates.hourly_rate, 169 * ndm, after)
              /\ DayRegular' = Min(480, cursor' - tin)
              /\ DayOt' = (cursor' - tin) - Min(480, cursor' - tin) ]_vars

\* C7 witness: a paid rest day worked beyond 8 hours into the night window,
\* with overtime credited.
C7_Witness ==
    /\ DayDone
    /\ RestDayOnly(cur_date)
    /\ emp.monthly_salary > 0
    /\ tout - tin > 480
    /\ DayRegular = 480
    /\ DayOt = tout - tin - 480
    /\ totals.nd_hours > day_start_totals.nd_hours

\* Tardiness and undertime minutes of date d as the claim states them.
TardinessOf(d) ==
    IF HasCompleteRecord(d) /\ Ordinary(d) /\ RecordOf(d).time_in > 9 * 60
    THEN RecordOf(d).time_in - 9 * 60 ELSE 0
UndertimeOf(d) ==
    IF HasCompleteRecord(d) /\ Ordinary(d) /\ RecordOf(d).time_out < 18 * 60
    THEN 18 * 60 - RecordOf(d).time_out ELSE 0
RECURSIVE TardinessUpTo(_)
TardinessUpTo(d) ==
    IF d < period_start THEN 0 ELSE TardinessOf(d) + TardinessUpTo(d - 1)
RECURSIVE UndertimeUpTo(_)
UndertimeUpTo(d) ==
    IF d < period_start THEN 0 ELSE UndertimeOf(d) + UndertimeUpTo(d - 1)
LastDateBegun == IF pc = "chunk" THEN cur_date ELSE cur_date - 1

\* C8: tardiness and undertime accumulate only on ordinary days: a worked
\* ordinary day adds (clock-in - 09:00) when clock-in is later than 09:00 and
\* (18:00 - clock-out) when clock-out is earlier than 18:00; a worked rest
\* day or holiday leaves both totals unchanged.
C8_TardinessUndertime ==
    /\ totals.tardiness_minutes = TardinessUpTo(LastDateBegun)
    /\ totals.undertime_minutes = UndertimeUpTo(LastDateBegun)

\* C8 witness: a returned period with a late, early-leaving ordinary day and
\* a late, early-leaving worked rest day or holiday.
C8_Witness ==
    /\ pc = "done"
    /\ totals.tardiness_minutes > 0
    /\ totals.undertime_minutes > 0
    /\ \E d \in period_start .. period_end :
          /\ ~Ordinary(d)
          /\ HasCompleteRecord(d)
          /\ RecordOf(d).time_in > 9 * 60
          /\ RecordOf(d).time_out < 18 * 60

\* C9: nd_hours never exceeds regular_hours + ot_hours, and each slice adds
\* its duration to nd_hours once exactly when it starts at or after 22:00 or
\* before 06:00, whether it is regular or overtime.
C9_NightDifferential ==
    [][ /\ totals'.nd_hours <= totals'.regular_hours + totals'.ot_hours
        /\ (pc = "chunk" /\ cursor < tout) =>
              totals'.nd_hours =
                 totals.nd_hours
                    + (IF InNdWindow(NextChunkTime) THEN NextChunkHours ELSE 0) ]_vars

\* C9 witness: an ordinary overnight day past midnight whose night slices
\* were credited both as overtime (22:00-24:00) and as regular (after 00:00).
C9_Witness ==
    /\ pc = "chunk"
    /\ Ordinary(cur_date)
    /\ cursor > 1440 + 15
    /\ DayOt > 120
    /\ totals.nd_hours - day_start_totals.nd_hours = cursor - 22 * 60

\* C10: total_deductions = 5% and 2.5% of the monthly salary + 200 + the
\* tardiness and undertime minutes / 60 x hourly_rate + absences x daily_rate
\* + income_tax(gross - (social + health + 200)), and net_pay = gross_pay -
\* total_deductions without clamping: negative when deductions exceed gross.
C10_Deductions ==
    pc = "done" =>
        \A r \in result :
            LET social == PercentOf(5, emp.monthly_salary)
                health == emp.monthly_salary \div 40
                gross == totals.chunk_pay
            IN  /\ r.gross_pay = gross
                /\ r.total_deductions =
                      social + health + 20000
                        + totals.tardiness_minutes * (rates.hourly_rate \div 60)
                        + totals.undertime_minutes * (rates.hourly_rate \div 60)
                        + totals.absences * rates.daily_rate
                        + compute_income_tax_monthly_from_table(
                              gross - (social + health + 20000))
                /\ r.net_pay = r.gross_pay - r.total_deductions
                /\ r.total_deductions > r.gross_pay => r.net_pay < 0

\* C10 witness: a returned summary of a period with no worked day, whose
\* net pay is negative.
C10_Witness ==
    /\ pc = "done"
    /\ totals.days_worked = 0
    /\ emp.monthly_salary > 0
    /\ \E r \in result : r.net_pay < 0 /\ r.total_deductions > r.gross_pay


\* The holiday kind of date d in the calendar: "REGULAR", "SPECIAL" or none.
IsHoliday(d, kind) == \E h \in holidays : h.date = d /\ h.type = kind
IsRestDate(d) == strftime_A(d) = emp.rest_day
\* The chunk the loop is about to process is in the non-overtime part of
\* the day: on an ordinary day it starts no later than 19:00, on a rest day
\* it lies in the first 8 hours, on a holiday every chunk is.
NextChunkNonOvertime ==
    /\ Ordinary(cur_date) => NextChunkTime <= 19 * 60
    /\ RestDayOnly(cur_date) => cursor - tin < 480
\* The base multiplier (in hundredths) of the non-overtime chunks of date d.
NonOvertimeMultiplier(d) ==
    IF IsHoliday(d, "REGULAR") THEN 200
    ELSE IF IsHoliday(d, "SPECIAL") THEN (IF IsRestDate(d) THEN 150 ELSE 130)
    ELSE IF IsRestDate(d) THEN 130
    ELSE 100

\* C11: the holiday calendar takes precedence over the rest day: every
\* non-overtime slice is paid at 1.00 on an ordinary day, 1.30 on a
\* non-holiday rest day, 1.30 on a special holiday off the rest day, 1.50 on
\* a special holiday on the rest day and 2.00 on a regular holiday, on the
\* rest day or not (never 2.60, never the rest-day 1.30/1.69 split).
C11_DayTypeMultipliers ==
    [][ (pc = "chunk" /\ cursor < tout /\ NextChunkNonOvertime) =>
          LET ndm == IF InNdWindow(NextChunkTime) THEN 110 ELSE 100
          IN  /\ totals'.chunk_pay =
                    totals.chunk_pay
                       + Pay(rates.hourly_rate, NonOvertimeMultiplier(cur_date) * ndm,
                             NextChunkHours)
              /\ totals'.regular_hours = totals.regular_hours + NextChunkHours
              /\ totals'.ot_hours = totals.ot_hours ]_vars

\* C11 witness: a paid regular holiday on the rest day, worked more than 8
\* hours, all of it paid at 2.00.
C11_Witness ==
    /\ DayDone
    /\ IsHoliday(cur_date, "REGULAR")
    /\ IsRestDate(cur_date)
    /\ emp.monthly_salary > 0
    /\ tout - tin > 480
    /\ totals.nd_hours = day_start_totals.nd_hours
    /\ totals.chunk_pay - day_start_totals.chunk_pay
          = Pay(rates.hourly_rate, 200 * 100, tout - tin)


\* Number of iterations of the day loop: range(day_count).
DayIterations == Max(day_count, 0)
\* Chunks of the current day already processed, and still to process.
ChunksDone == (cursor - tin + 14) \div 15
ChunksLeft == (tout - cursor + 14) \div 15
\* Steps the call may still take, at most: 99 for each day not begun (its
\* start, at most 96 chunks, its end), and the return.
StepsLeft ==
    IF pc = "done" THEN 0
    ELSE IF pc = "day" THEN 1 + 99 * (DayIterations - i)
    ELSE 1 + 99 * (DayIterations - i - 1) + 1 + ChunksLeft

\* C12: the call always terminates: every iteration of the chunk loop, on a
\* rest day too, strictly advances the cursor, a day has at most 96 chunks,
\* and the day loop ends after period_end - period_start + 1 iterations.
C12_Terminates ==
    /\ [](pc # "done" => ENABLED <<Next>>_vars)
    /\ [](pc = "chunk" => ChunksDone <= 96 /\ ChunksLeft >= 0 /\ tout - tin < 1440)
    /\ [](i <= DayIterations /\ (pc = "done" => i = DayIterations))
    /\ [][ /\ StepsLeft' < StepsLeft
           /\ StepsLeft' >= 0
           /\ (pc = "chunk" /\ cursor < tout) =>
                 (cursor' > cursor /\ cursor' <= tout /\ ChunksDone' = ChunksDone + 1)
           /\ i' \in {i, i + 1} ]_vars

\* C12 witness: the summary is returned after a period of two days, one of
\* them an overnight rest day that has run through 48 chunks, beyond the
\* 8-hour mark, the other a record whose clock-out equals its clock-in.
C12_Witness ==
    /\ pc = "done"
    /\ i = 2
    /\ \E d \in period_start .. period_end :
          /\ RestDayOnly(d)
          /\ HasCompleteRecord(d)
          /\ RecordOf(d).time_out < RecordOf(d).time_in
    /\ \E d \in period_start .. period_end :
          /\ HasCompleteRecord(d)
          /\ RecordOf(d).time_out = RecordOf(d).time_in
    /\ totals.regular_hours + totals.ot_hours = 48 * 15


\* Date d has a holiday entry, special or regular.
HasHolidayEntry(d) == \E h \in holidays : h.date = d

====
